---------------------------- MODULE Spec2Model ----------------------------
(***************************************************************************)
(* AzureConverter (haystack/nodes/file_converter/azure.py): reconstruction *)
(* of table and text documents from a Form Recognizer AnalyzeResult.       *)
(*                                                                         *)
(* Strings are sequences of one-character strings, so that replace, strip  *)
(* and join are computed character by character.  Python lists are         *)
(* sequences; a Python index i is the position i + 1.  None is the empty   *)
(* sequence and a present optional value v is <<v>>.                       *)
(***************************************************************************)
EXTENDS Integers, Sequences, FiniteSets, TLC

VARIABLES
    result,        \* the AnalyzeResult object handed to the converter
    meta,          \* the caller's meta mapping: <<>> is None, <<d>> a dict d
    cfg,           \* the converter's configuration (self.* and valid_languages)
    pc,            \* position of the current call
    tbl,           \* index (from 1) of the next table in _convert_tables
    converted_tables, \* the list _convert_tables is building
    text,          \* <<>> or <<the Document _convert_text returned>>
    docs,          \* the list the last finished call returned
    error,         \* "" or the name of the exception the call raised
    warned,        \* a warning was logged by the current call
    calls,         \* number of calls started so far
    prev,          \* outcome of the previous call: [pc, docs, error]
    result0,       \* result as it was when the current call started
    meta0          \* meta as it was when the current call started

vars == <<result, meta, cfg, pc, tbl, converted_tables, text, docs, error,
          warned, calls, prev, result0, meta0>>

----------------------------------------------------------------------------
(* Python built-ins used by the converter *)

\* ":selected:" and ":unselected:", the tags lines 235-236 remove
SELECTED == <<":", "s", "e", "l", "e", "c", "t", "e", "d", ":">>
UNSELECTED == <<":", "u", "n", "s", "e", "l", "e", "c", "t", "e", "d", ":">>

\* A character is a string of length 1.  A character that a string of this
\* language cannot hold as one character is written by the name of its code
\* point instead, "U+2003" for U+2003: every character from U+2000 on, and
\* every character outside ASCII when the file is not decoded as UTF-8.
Char(literal, name) == IF Len(literal) = 1 THEN literal ELSE name

\* the ASCII characters for which str.isspace() holds; the last five are
\* U+000B, U+001C, U+001D, U+001E and U+001F, written as themselves
AsciiWhitespace ==
    {" ", "\n", "\t", "\r", "\f", "", "", "", "", ""}

\* the other characters for which str.isspace() holds
OtherWhitespace ==
    {Char("", "U+0085"), Char(" ", "U+00A0"), Char(" ", "U+1680"),
     "U+2000", "U+2001", "U+2002", "U+2003", "U+2004", "U+2005",
     "U+2006", "U+2007", "U+2008", "U+2009", "U+200A", "U+2028",
     "U+2029", "U+202F", "U+205F", "U+3000"}

\* str.strip() removes these from both ends
Whitespace == AsciiWhitespace \cup OtherWhitespace

\* s[i] for a list of length n: the position (from 1), or 0 for IndexError
PyIndex(i, n) ==
    IF 0 <= i /\ i < n THEN i + 1
    ELSE IF -n <= i /\ i < 0 THEN n + i + 1
    ELSE 0

\* s[-n:]
PySliceLast(s, n) ==
    IF n = 0 \/ n >= Len(s) THEN s ELSE SubSeq(s, Len(s) - n + 1, Len(s))

\* s[:n] for n >= 0
PySliceFirst(s, n) ==
    IF n >= Len(s) THEN s ELSE SubSeq(s, 1, n)

IsPrefix(p, s) == Len(p) <= Len(s) /\ SubSeq(s, 1, Len(p)) = p

\* s.replace(old, new): leftmost non-overlapping occurrences, old non-empty
RECURSIVE StrReplace(_, _, _)
StrReplace(s, old, new) ==
    IF s = <<>> THEN <<>>
    ELSE IF IsPrefix(old, s)
         THEN new \o StrReplace(SubSeq(s, Len(old) + 1, Len(s)), old, new)
         ELSE <<Head(s)>> \o StrReplace(Tail(s), old, new)

RECURSIVE LStrip(_)
LStrip(s) ==
    IF s # <<>> /\ Head(s) \in Whitespace THEN LStrip(Tail(s)) ELSE s

RECURSIVE RStrip(_)
RStrip(s) ==
    IF s # <<>> /\ s[Len(s)] \in Whitespace
    THEN RStrip(SubSeq(s, 1, Len(s) - 1)) ELSE s

\* s.strip()
Strip(s) == RStrip(LStrip(s))

\* sep.join(parts)
RECURSIVE Join(_, _)
Join(sep, parts) ==
    IF parts = <<>> THEN <<>>
    ELSE IF Len(parts) = 1 THEN parts[1]
    ELSE parts[1] \o sep \o Join(sep, Tail(parts))

\* d[k] = v on a dict d
DictSet(d, k, v) ==
    [x \in DOMAIN d \cup {k} |-> IF x = k THEN v ELSE d[x]]

\* sorted(s, reverse=True) of a set of integers
RECURSIVE SortedDesc(_)
SortedDesc(S) ==
    IF S = {} THEN <<>>
    ELSE LET m == CHOOSE x \in S : \A y \in S : y <= x
         IN  <<m>> \o SortedDesc(S \ {m})

\* del s[i] at position p (from 1)
DelAt(s, p) == SubSeq(s, 1, p - 1) \o SubSeq(s, p + 1, Len(s))

----------------------------------------------------------------------------
(* _convert_tables, lines 218-317 *)

\* lines 235-236
Sanitize(content) == StrReplace(StrReplace(content, SELECTED, <<>>), UNSELECTED, <<>>)

\* line 228
EmptyGrid(row_count, column_count) ==
    [i \in 1..row_count |-> [j \in 1..column_count |-> <<>>]]

\* PlaceCell with the first header row appended to row 0 as well
PlaceCellFromFirstRow(s, cell, c, r, merge) ==
    IF merge /\ cell.kind = "columnHeader" /\ cell.row_index >= s.row_idx_start
    THEN IF Len(s.table_list) = 0
         THEN [s EXCEPT !.err = "IndexError"]
         ELSE LET col == PyIndex(cell.column_index + c, Len(s.table_list[1]))
              IN  IF col = 0
                  THEN [s EXCEPT !.err = "IndexError"]
                  ELSE [s EXCEPT
                          !.table_list[1][col] = @ \o <<"\n">> \o cell.content,
                          !.additional = @ \cup {cell.row_index - s.row_idx_start}]
    ELSE LET row == PyIndex(cell.row_index + r - s.row_idx_start, Len(s.table_list))
         IN  IF row = 0
             THEN [s EXCEPT !.err = "IndexError"]
             ELSE LET col == PyIndex(cell.column_index + c, Len(s.table_list[row]))
                  IN  IF col = 0
                      THEN [s EXCEPT !.err = "IndexError"]
                      ELSE [s EXCEPT !.table_list[row][col] = cell.content]

\* lines 250-259: one (c, r) step of the span loops, on the loop state s
PlaceCell(s, cell, c, r, merge) ==
    IF merge /\ cell.kind = "columnHeader" /\ cell.row_index > s.row_idx_start
    THEN IF Len(s.table_list) = 0
         THEN [s EXCEPT !.err = "IndexError"]
         ELSE LET col == PyIndex(cell.column_index + c, Len(s.table_list[1]))
              IN  IF col = 0
                  THEN [s EXCEPT !.err = "IndexError"]
                  ELSE [s EXCEPT
                          !.table_list[1][col] = @ \o <<"\n">> \o cell.content,
                          !.additional = @ \cup {cell.row_index - s.row_idx_start}]
    ELSE LET row == PyIndex(cell.row_index + r - s.row_idx_start, Len(s.table_list))
         IN  IF row = 0
             THEN [s EXCEPT !.err = "IndexError"]
             ELSE LET col == PyIndex(cell.column_index + c, Len(s.table_list[row]))
                  IN  IF col = 0
                      THEN [s EXCEPT !.err = "IndexError"]
                      ELSE [s EXCEPT !.table_list[row][col] = cell.content]

\* PlaceSpan with a zero span expanded like a span of one
RECURSIVE PlaceSpanZeroAsOne(_, _, _, _)
PlaceSpanZeroAsOne(s, cell, k, merge) ==
    LET column_span == IF cell.column_span = 0 THEN 1 ELSE cell.column_span
        row_span == IF cell.row_span = 0 THEN 1 ELSE cell.row_span
    IN  IF s.err # "" \/ k >= column_span * row_span THEN s
        ELSE PlaceSpanZeroAsOne(PlaceCell(s, cell, k \div row_span, k % row_span, merge),
                                cell, k + 1, merge)

\* lines 246-259: the span loops of one cell, step k of column_span * row_span
RECURSIVE PlaceSpan(_, _, _, _)
PlaceSpan(s, cell, k, merge) ==
    IF s.err # "" \/ k >= cell.column_span * cell.row_span THEN s
    ELSE PlaceSpan(PlaceCell(s, cell, k \div cell.row_span, k % cell.row_span, merge),
                   cell, k + 1, merge)

\* lines 233-259: the body of the loop over table.cells for the cell at idx
\* (from 1); s.cells holds the cell objects, whose content line 235 assigns
CellStep(s, idx, column_count, merge) ==
    LET clean == Sanitize(s.cells[idx].content)
        cell  == [s.cells[idx] EXCEPT !.content = clean]
        s1    == [s EXCEPT !.cells[idx] = cell]
    IN  IF idx = 1 /\ cell.column_span = column_count
        THEN IF Len(s1.table_list) = 0
             THEN [s1 EXCEPT !.caption = clean, !.row_idx_start = 1,
                             !.err = "IndexError"]
             ELSE [s1 EXCEPT !.caption = clean, !.row_idx_start = 1,
                             !.table_list = Tail(@)]
        ELSE PlaceSpan(s1, cell, 0, merge)

RECURSIVE CellLoop(_, _, _, _)
CellLoop(s, idx, column_count, merge) ==
    IF s.err # "" \/ idx > Len(s.cells) THEN s
    ELSE CellLoop(CellStep(s, idx, column_count, merge), idx + 1, column_count, merge)

\* lines 262-263
RECURSIVE DeleteRows(_, _)
DeleteRows(s, rows) ==
    IF s.err # "" \/ rows = <<>> THEN s
    ELSE IF PyIndex(Head(rows), Len(s.table_list)) = 0
         THEN [s EXCEPT !.err = "IndexError"]
         ELSE DeleteRows([s EXCEPT !.table_list =
                             DelAt(@, PyIndex(Head(rows), Len(s.table_list)))],
                         Tail(rows))

\* lines 228-263: the grid of one table
BuildGrid(table, merge) ==
    LET s0 == [table_list |-> EmptyGrid(table.row_count, table.column_count),
               additional |-> {}, caption |-> <<>>, row_idx_start |-> 0,
               cells |-> table.cells, err |-> ""]
        s1 == CellLoop(s0, 1, table.column_count, merge)
    IN  DeleteRows(s1, SortedDesc(s1.additional))

\* next(page for page in pages if page.page_number == n): <<>> is StopIteration
FindPage(pages, n) ==
    LET hits == SelectSeq(pages, LAMBDA p : p.page_number = n)
    IN  IF hits = <<>> THEN <<>> ELSE <<hits[1]>>


\* lines 274-276: contents of the lines of page that start before offset
PrecedingLines(page, offset) ==
    LET sel == SelectSeq(page.lines, LAMBDA line : line.spans[1].offset < offset)
    IN  [i \in 1..Len(sel) |-> sel[i].content]

\* lines 294-296: contents of the lines of page that start after offset
FollowingLines(page, offset) ==
    LET sel == SelectSeq(page.lines, LAMBDA line : line.spans[1].offset > offset)
    IN  [i \in 1..Len(sel) |-> sel[i].content]

\* lines 301-310
TableMeta(m, preceding_context, following_context, add_page, table) ==
    LET d0 == IF Len(m) = 1 THEN m[1] ELSE <<>>
        d1 == DictSet(d0, "preceding_context", preceding_context)
        d2 == DictSet(d1, "following_context", following_context)
    IN  IF add_page /\ table.bounding_regions # <<>>
        THEN DictSet(d2, "page", table.bounding_regions[1].page_number)
        ELSE d2

\* lines 312-315: pd.DataFrame(columns=table_list[0], data=table_list[1:])
TableDocument(table_list, table_meta) ==
    [content |-> [columns |-> table_list[1], data |-> Tail(table_list)],
     content_type |-> "table", meta |-> table_meta]

NoDocument == <<>>

\* lines 226-315: one iteration of the loop over result.tables.  The outcome
\* is [err, doc, cells]: the exception raised ("" for none), <<the Document>>
\* appended, and the table's cell objects as the iteration leaves them.
ConvertTable(res, table, m, c) ==
    LET g == BuildGrid(table, c.merge_multiple_column_headers)
        raise(e) == [err |-> e, doc |-> NoDocument, cells |-> g.cells]
        regions == table.bounding_regions
        begin == IF regions # <<>>
                 THEN FindPage(res.pages, regions[1].page_number) ELSE <<>>
        start_offset == table.spans[1].offset
        preceding_lines ==
            IF begin # <<>> /\ begin[1].lines # <<>>
            THEN PrecedingLines(begin[1], start_offset)
            ELSE <<>>
        preceding_context ==
            Strip(Join(<<"\n">>, PySliceLast(preceding_lines, c.preceding_context_len))
                  \o <<"\n">> \o g.caption)
        endp == IF Len(regions) = 1 THEN begin
                ELSE IF regions # <<>>
                     THEN FindPage(res.pages, regions[Len(regions)].page_number)
                     ELSE <<>>
        end_offset == start_offset + table.spans[1].length
        following_lines ==
            IF endp # <<>> /\ endp[1].lines # <<>>
            THEN FollowingLines(endp[1], end_offset)
            ELSE <<>>
        following_context ==
            Join(<<"\n">>, PySliceFirst(following_lines, c.following_context_len))
    IN  IF g.err # "" THEN raise(g.err)
        ELSE IF regions # <<>> /\ begin = <<>> THEN raise("StopIteration")
        ELSE IF table.spans = <<>> THEN raise("IndexError")
        ELSE IF Len(regions) > 1 /\ endp = <<>> THEN raise("StopIteration")
        ELSE IF g.table_list = <<>> THEN raise("IndexError")
        ELSE [err |-> "",
              doc |-> <<TableDocument(g.table_list,
                           TableMeta(m, preceding_context, following_context,
                                     c.add_page_number, table))>>,
              cells |-> g.cells]

----------------------------------------------------------------------------
(* _convert_text, lines 319-343 *)

\* lines 323-328: table_spans_by_page[n]
TableSpansByPage(tables, n) ==
    LET on == SelectSeq(tables, LAMBDA t :
                  t.bounding_regions # <<>> /\ t.bounding_regions[1].page_number = n)
    IN  [i \in 1..Len(on) |-> on[i].spans[1]]

\* InTable with the end of the span excluded
InTableHalfOpen(line, tables_on_page) ==
    \E i \in DOMAIN tables_on_page :
        /\ tables_on_page[i].offset <= line.spans[1].offset
        /\ line.spans[1].offset < tables_on_page[i].offset + tables_on_page[i].length

\* lines 334-337
InTable(line, tables_on_page) ==
    \E i \in DOMAIN tables_on_page :
        /\ tables_on_page[i].offset <= line.spans[1].offset
        /\ line.spans[1].offset <= tables_on_page[i].offset + tables_on_page[i].length

\* lines 333-340: the text the lines of one page add
RECURSIVE LinesText(_, _)
LinesText(lines, tables_on_page) ==
    IF lines = <<>> THEN <<>>
    ELSE (IF InTable(Head(lines), tables_on_page) THEN <<>>
          ELSE Head(lines).content \o <<"\n">>)
         \o LinesText(Tail(lines), tables_on_page)

\* lines 330-341
RECURSIVE PagesText(_, _)
PagesText(pages, tables) ==
    IF pages = <<>> THEN <<>>
    ELSE LinesText(Head(pages).lines, TableSpansByPage(tables, Head(pages).page_number))
         \o <<"\f">> \o PagesText(Tail(pages), tables)

\* result.tables if result.tables else []  (result.tables: <<>> None, <<list>>)
TablesOf(res) == IF res.tables = <<>> THEN <<>> ELSE res.tables[1]

\* line 343; meta is the caller's meta as passed (<<>> for None)
ConvertText(res, m) ==
    [content |-> PagesText(res.pages, TablesOf(res)),
     content_type |-> "text", meta |-> m]


----------------------------------------------------------------------------
(* _convert_tables_and_text, lines 187-216, as steps of one call *)

MaxCalls == 2

\* the docs of the call, lines 205-207: some table document has a data row,
\* on which row.values() is evaluated
IteratesRow(tables) == \E i \in DOMAIN tables : tables[i].content.data # <<>>

\* convert / convert_azure_json hand result and meta to
\* _convert_tables_and_text (lines 146, 183); the same objects may be
\* converted again once a call has finished
Call ==
    /\ pc \in {"idle", "returned", "raised"}
    /\ calls < MaxCalls
    /\ calls' = calls + 1
    /\ prev' = [pc |-> pc, docs |-> docs, error |-> error]
    /\ result0' = result
    /\ meta0' = meta
    /\ pc' = "tables"
    /\ tbl' = 1
    /\ converted_tables' = <<>>
    /\ text' = <<>>
    /\ docs' = <<>>
    /\ error' = ""
    /\ warned' = FALSE
    /\ UNCHANGED <<result, meta, cfg>>

\* lines 226-315: one iteration of the loop over result.tables
ConvertNextTable ==
    /\ pc = "tables"
    /\ tbl <= Len(TablesOf(result))
    /\ LET out == ConvertTable(result, TablesOf(result)[tbl], meta, cfg)
       IN  /\ result' = [result EXCEPT !.tables[1][tbl].cells = out.cells]
           /\ pc' = IF out.err # "" THEN "raised" ELSE "tables"
           /\ error' = out.err
           /\ converted_tables' = converted_tables \o out.doc
           /\ tbl' = IF out.err # "" THEN tbl ELSE tbl + 1
    /\ UNCHANGED <<meta, cfg, text, docs, warned, calls, prev, result0, meta0>>

\* lines 223-224 / 317 (the loop is over) and line 196
ConvertTextStep ==
    /\ pc = "tables"
    /\ tbl > Len(TablesOf(result))
    /\ text' = <<ConvertText(result, meta)>>
    /\ pc' = "validate"
    /\ UNCHANGED <<result, meta, cfg, tbl, converted_tables, docs, error, warned,
                   calls, prev, result0, meta0>>

\* lines 197-216; answer is what validate_language returns
ValidateAndReturn ==
    /\ pc = "validate"
    /\ \E answer \in BOOLEAN :
        IF cfg.valid_languages # <<>> /\ IteratesRow(converted_tables)
        THEN /\ pc' = "raised"
             /\ error' = "TypeError"
             /\ UNCHANGED <<docs, warned>>
        ELSE /\ pc' = "returned"
             /\ docs' = converted_tables \o text
             /\ warned' = (cfg.valid_languages # <<>> /\ ~answer)
             /\ error' = ""
    /\ UNCHANGED <<result, meta, cfg, tbl, converted_tables, text, calls, prev,
                   result0, meta0>>

Next == Call \/ ConvertNextTable \/ ConvertTextStep \/ ValidateAndReturn

\* the state before the first call, for an input and a configuration
Start(res, m, c) ==
    /\ result = res
    /\ meta = m
    /\ cfg = c
    /\ pc = "idle"
    /\ tbl = 1
    /\ converted_tables = <<>>
    /\ text = <<>>
    /\ docs = <<>>
    /\ error = ""
    /\ warned = FALSE
    /\ calls = 0
    /\ prev = [pc |-> "idle", docs |-> <<>>, error |-> ""]
    /\ result0 = res
    /\ meta0 = m

----------------------------------------------------------------------------
(* Inputs *)

Span(offset, length) == [offset |-> offset, length |-> length]

Line(content, offset) ==
    [content |-> content, spans |-> <<Span(offset, Len(content))>>]

Page(n, lines) == [page_number |-> n, lines |-> lines]

Region(n) == [page_number |-> n]

Cell(ri, ci, rs, cs, kind, content) ==
    [row_index |-> ri, column_index |-> ci, row_span |-> rs, column_span |-> cs,
     kind |-> kind, content |-> content]

Table(rc, cc, cells, regions, spans) ==
    [row_count |-> rc, column_count |-> cc, cells |-> cells,
     bounding_regions |-> regions, spans |-> spans]

Config(pre, fol, merge, add_page, langs) ==
    [preceding_context_len |-> pre, following_context_len |-> fol,
     merge_multiple_column_headers |-> merge, add_page_number |-> add_page,
     valid_languages |-> langs]

\* the defaults of __init__, lines 45-46
DefaultContextLen == 3

\* sequences over S of length at most n
SeqsUpTo(S, n) == UNION {[1..k -> S] : k \in 0..n}

MetaChoices == {<<>>, <<[name |-> "doc"]>>}

LanguageChoices == {<<>>, <<"en">>}

(* Spec: documents with several tables, cell contents with selection tags *)

MaxTables == 2

DocPages ==
    <<Page(1, <<Line(<<"a">>, 0), Line(<<"b">>, 10), Line(<<"c">>, 30)>>),
      Page(2, <<Line(<<"d">>, 60)>>)>>

TaggedContents ==
    {<<"x">>,
     <<"y">> \o SELECTED \o UNSELECTED,
     <<":", "s", "e", "l">> \o SELECTED \o <<"e", "c", "t", "e", "d", ":">>}

DocTable(shape, x, regions) ==
    LET H == "columnHeader"
        B == "content"
        cells ==
            CASE shape = "header" ->
                   <<Cell(0, 0, 1, 1, H, x), Cell(0, 1, 1, 1, H, <<"h">>)>>
              [] shape = "rows" ->
                   <<Cell(0, 0, 1, 1, H, <<"h">>), Cell(0, 1, 1, 1, H, <<"k">>),
                     Cell(1, 0, 1, 1, B, x), Cell(1, 1, 1, 1, B, <<"v">>)>>
              [] shape = "caption" ->
                   <<Cell(0, 0, 1, 2, B, x),
                     Cell(1, 0, 1, 1, H, <<"h">>), Cell(1, 1, 1, 1, H, <<"k">>)>>
        rc == CASE shape = "header" -> 1 [] shape = "rows" -> 2 [] shape = "caption" -> 2
    IN  Table(rc, 2, cells, regions, <<Span(20, 5)>>)

DocTables ==
    {DocTable(shape, x, regions) :
        shape \in {"header", "rows", "caption"}, x \in TaggedContents,
        regions \in {<<>>, <<Region(2)>>}}

Init ==
    \E tables \in {<<>>} \cup {<<ts>> : ts \in SeqsUpTo(DocTables, MaxTables)},
       m \in MetaChoices, langs \in LanguageChoices, add_page \in BOOLEAN :
        Start([pages |-> DocPages, tables |-> tables], m,
              Config(DefaultContextLen, DefaultContextLen, TRUE, add_page, langs))

Spec == Init /\ [][Next]_vars


----------------------------------------------------------------------------
(* Claims checked under Spec *)

Finished == pc \in {"returned", "raised"}

\* number of tables of the input of the current call
NumTables == Len(TablesOf(result0))

\* C2: when a call has returned or raised, the AnalyzeResult (every cell's
\* content included) and the caller's meta equal their values before the call.
C2_InputsNotMutated ==
    Finished => (result = result0 /\ meta = meta0)

\* C5: with accepted languages supplied, a call whose tables and text were
\* converted returns the list it returns without languages (the table
\* documents followed by the text document), whatever the validator answers.
C5_LanguagesNeverPreventOutput ==
    (Finished /\ cfg.valid_languages # <<>> /\ text # <<>>)
        => (pc = "returned" /\ docs = converted_tables \o text)

\* C6: a second conversion of the same AnalyzeResult object, after the first
\* has returned, returns a document list equal to the first one element by
\* element (content, content_type and meta).
C6_RepeatedConversionAgrees ==
    (calls >= 2 /\ pc = "returned" /\ prev.pc = "returned")
        => (/\ Len(docs) = Len(prev.docs)
            /\ \A i \in DOMAIN docs :
                 /\ docs[i].content_type = prev.docs[i].content_type
                 /\ docs[i].content = prev.docs[i].content
                 /\ docs[i].meta = prev.docs[i].meta)

\* the shape of a returned list: one table document per input table, in input
\* order, then the text document; 'page' is the first bounding region's page
ReturnedShape ==
    /\ Len(docs) = NumTables + 1
    /\ \A i \in 1..NumTables :
         LET t == TablesOf(result0)[i]
         IN  /\ docs[i].content_type = "table"
             /\ <<docs[i]>> = ConvertTable(result0, t, meta0, cfg).doc
             /\ (cfg.add_page_number /\ t.bounding_regions # <<>>)
                    => /\ "page" \in DOMAIN docs[i].meta
                       /\ docs[i].meta["page"] = t.bounding_regions[1].page_number
    /\ docs[NumTables + 1].content_type = "text"

\* C10: for an AnalyzeResult with N tables (a missing table list included) the
\* call returns exactly N + 1 documents: the table documents in input order,
\* then the text document, with meta 'page' the first bounding region's page
\* number when add_page_number is set.
C10_ReturnsTablesThenText ==
    Finished => (pc = "returned" /\ ReturnedShape)


----------------------------------------------------------------------------
(* SpecContext: one table among pages with 0..MaxLines lines, with every     *)
(* combination of context lengths 0..MaxContextLen                           *)

MaxLines == 3

MaxContextLen == 2

PageLetters == <<"p", "q", "r">>

Digits == <<"1", "2", "3", "4", "5", "6", "7", "8", "9">>

\* page n with k lines: line i is named by page and position and starts at
\* offset 100 * (n - 1) + 10 * i
NumberedPage(n, k) ==
    Page(n, [i \in 1..k |->
                Line(<<PageLetters[n], Digits[i]>>, 100 * (n - 1) + 10 * i)])

ContextPages ==
    {<<>>}
    \cup {<<NumberedPage(1, k)>> : k \in 0..MaxLines}
    \cup {<<NumberedPage(1, k), NumberedPage(2, l)>> : k \in 0..MaxLines, l \in 0..MaxLines}

\* a one-column-pair table, with or without a caption cell spanning both columns
ContextTable(captioned, regions, offset) ==
    LET H == "columnHeader"
        cells == IF captioned
                 THEN <<Cell(0, 0, 1, 2, "content", <<" ", "T">>),
                        Cell(1, 0, 1, 1, H, <<"h">>), Cell(1, 1, 1, 1, H, <<"k">>)>>
                 ELSE <<Cell(0, 0, 1, 1, H, <<"h">>), Cell(0, 1, 1, 1, H, <<"k">>)>>
    IN  Table(IF captioned THEN 2 ELSE 1, 2, cells, regions, <<Span(offset, 5)>>)

RegionChoices ==
    {<<>>, <<Region(1)>>, <<Region(1), Region(2)>>, <<Region(3)>>,
     <<Region(1), Region(3)>>}

ContextTables ==
    {ContextTable(captioned, regions, offset) :
        captioned \in BOOLEAN, regions \in RegionChoices, offset \in {15, 35}}

InitContext ==
    \E pages \in ContextPages, t \in ContextTables,
       pre \in 0..MaxContextLen, fol \in 0..MaxContextLen :
        Start([pages |-> pages, tables |-> << <<t>> >>], <<>>,
              Config(pre, fol, TRUE, TRUE, <<>>))

SpecContext == InitContext /\ [][Next]_vars

\* s.split("\n")
RECURSIVE SplitOn(_, _)
SplitOn(s, sep) ==
    IF \A i \in DOMAIN s : s[i] # sep THEN <<s>>
    ELSE LET k == CHOOSE i \in DOMAIN s :
                      s[i] = sep /\ \A j \in 1..(i - 1) : s[j] # sep
         IN  <<SubSeq(s, 1, k - 1)>> \o SplitOn(SubSeq(s, k + 1, Len(s)), sep)

\* number of lines of the page p (<<>> for no page) whose content is a line of
\* the context string
PageLinesIn(context, p) ==
    LET segs == SplitOn(context, "\n")
        lines == IF p = <<>> THEN <<>> ELSE p[1].lines
    IN  Cardinality({i \in DOMAIN lines :
                        \E j \in DOMAIN segs : segs[j] = lines[i].content})

\* the pages of the first and of the last bounding region: <<>> when the table
\* has no region or no page of result.pages has that number
StartPage(res, t) ==
    IF t.bounding_regions = <<>> THEN <<>>
    ELSE FindPage(res.pages, t.bounding_regions[1].page_number)

EndPage(res, t) ==
    IF t.bounding_regions = <<>> THEN <<>>
    ELSE FindPage(res.pages, t.bounding_regions[Len(t.bounding_regions)].page_number)

\* C1: the preceding_context of every table document holds at most
\* preceding_context_len lines of the start page (the caption not counted) and
\* its following_context at most following_context_len lines of the end page,
\* for lengths >= 0, 0 included.
C1_ContextWithinLengths ==
    \A i \in DOMAIN converted_tables :
        LET t == TablesOf(result0)[i]
            m == converted_tables[i].meta
        IN  /\ PageLinesIn(m["preceding_context"], StartPage(result0, t))
                   <= cfg.preceding_context_len
            /\ PageLinesIn(m["following_context"], EndPage(result0, t))
                   <= cfg.following_context_len

\* the caption of a table: the content of a first cell spanning all columns
CaptionOf(t) ==
    IF t.cells # <<>> /\ t.cells[1].column_span = t.column_count
    THEN Sanitize(t.cells[1].content) ELSE <<>>

\* table i of the current call has been handled: it raised or its document
\* was appended
Raised(i) == pc = "raised" /\ text = <<>> /\ tbl = i

Converted(i) == i <= Len(converted_tables)

NoLines(p) == p = <<>> \/ p[1].lines = <<>>

\* C4: when the table has no bounding region, or the page of its first or last
\* bounding region is not in result.pages or has no lines, the table is
\* converted without raising, and the side whose page data is missing gets no
\* page line: preceding_context is the trimmed caption, following_context "".
C4_MissingContextDegrades ==
    \A i \in 1..NumTables :
        LET t == TablesOf(result0)[i]
        IN  /\ (NoLines(StartPage(result0, t)) \/ NoLines(EndPage(result0, t)))
                   => ~Raised(i)
            /\ (Converted(i) /\ NoLines(StartPage(result0, t)))
                   => converted_tables[i].meta["preceding_context"] = Strip(CaptionOf(t))
            /\ (Converted(i) /\ NoLines(EndPage(result0, t)))
                   => converted_tables[i].meta["following_context"] = <<>>


----------------------------------------------------------------------------
(* SpecText: up to MaxTables tables whose first spans cover some, none or    *)
(* the boundary of the lines of two pages                                    *)

TextPages ==
    {<<>>}
    \cup {<<NumberedPage(1, k)>> : k \in 0..MaxLines}
    \cup {<<NumberedPage(1, k), NumberedPage(2, 1)>> : k \in 0..MaxLines}

\* a header-only table; lines of page 1 start at 10, 20, 30, ..., the line of
\* page 2 at 110
TextTable(regions, span) ==
    Table(1, 2, <<Cell(0, 0, 1, 1, "columnHeader", <<"h">>),
                  Cell(0, 1, 1, 1, "columnHeader", <<"k">>)>>, regions, <<span>>)

TextTables ==
    {TextTable(regions, span) :
        regions \in {<<>>, <<Region(1)>>, <<Region(2), Region(1)>>},
        span \in {Span(10, 10), Span(20, 0), Span(105, 5)}}

InitText ==
    \E pages \in TextPages,
       tables \in {<<>>} \cup {<<ts>> : ts \in SeqsUpTo(TextTables, MaxTables)} :
        /\ \A i \in DOMAIN tables : \A j \in DOMAIN tables[i] :
              \A k \in DOMAIN tables[i][j].bounding_regions :
                 FindPage(pages, tables[i][j].bounding_regions[k].page_number) # <<>>
        /\ Start([pages |-> pages, tables |-> tables], <<>>,
                 Config(DefaultContextLen, DefaultContextLen, TRUE, TRUE, <<>>))

SpecText == InitText /\ [][Next]_vars

\* the line lies in the first span of a table recorded for the page: a table
\* of the input with a bounding region whose first region is on that page
Excluded(line, page, tables) ==
    \E i \in DOMAIN tables :
        /\ tables[i].bounding_regions # <<>>
        /\ tables[i].bounding_regions[1].page_number = page.page_number
        /\ line.spans[1].offset \in
              tables[i].spans[1].offset ..
                  (tables[i].spans[1].offset + tables[i].spans[1].length)

\* contents of the lines of the page that are not excluded, in line order
KeptContents(page, tables) ==
    LET kept == SelectSeq(page.lines, LAMBDA line : ~Excluded(line, page, tables))
    IN  [i \in 1..Len(kept) |-> kept[i].content]

\* C9: the text document's content is, page by page in input order, content +
\* newline for every line (in line order) whose first span's offset is in the
\* inclusive interval of no first table span recorded for the page, then one
\* form-feed per page; the number of form-feeds is the number of pages.
C9_TextContent ==
    text # <<>> =>
        LET content == text[1].content
            chunks  == SplitOn(content, "\f")
            pages   == result0.pages
        IN  /\ Cardinality({i \in DOMAIN content : content[i] = "\f"}) = Len(pages)
            /\ Len(chunks) = Len(pages) + 1
            /\ chunks[Len(chunks)] = <<>>
            /\ \A k \in DOMAIN pages :
                 SplitOn(chunks[k], "\n")
                     = KeptContents(pages[k], TablesOf(result0)) \o << <<>> >>

\* a text document of a page with a skipped and an emitted line, beside a
\* second page with lines
C9_Witness ==
    /\ text # <<>>
    /\ Len(result0.pages) = 2
    /\ \E i, j \in DOMAIN result0.pages[1].lines :
          /\ Excluded(result0.pages[1].lines[i], result0.pages[1], TablesOf(result0))
          /\ ~Excluded(result0.pages[1].lines[j], result0.pages[1], TablesOf(result0))
    /\ \A i \in DOMAIN result0.pages[2].lines :
          Excluded(result0.pages[2].lines[i], result0.pages[2], TablesOf(result0))


----------------------------------------------------------------------------
(* SpecGrid: one table of 1..MaxRows rows and 1 or 2 columns, an optional    *)
(* caption cell and up to two further cells with any position and span, in   *)
(* range or not                                                              *)

MaxRows == 2

\* (row_span, column_span)
SpanChoices == {<<0, 1>>, <<1, 0>>, <<1, 1>>, <<1, 2>>, <<2, 1>>, <<2, 2>>}

GridCells(rc, cc, kinds, content) ==
    {Cell(ri, ci, sp[1], sp[2], kind, content) :
        ri \in 0..rc, ci \in 0..(cc - 1), sp \in SpanChoices, kind \in kinds}

CaptionCells(cc) == {<<>>, <<Cell(0, 0, 1, cc, "content", <<"T">>)>>}

GridTable(rc, cc, cells) ==
    Table(rc, cc, cells, <<Region(1)>>, <<Span(15, 5)>>)

\* without header merging: up to two cells after the optional caption
PlainGridTables ==
    UNION {LET first == GridCells(rc, cc, {"content"}, <<"a">>)
               second == GridCells(rc, cc, {"content"}, <<"b">>)
           IN  {GridTable(rc, cc, cap \o cells) :
                   cap \in CaptionCells(cc),
                   cells \in {<<>>} \cup {<<x>> : x \in first}
                             \cup {<<x, y>> : x \in first, y \in second}}
           : rc \in 1..MaxRows, cc \in {1, 2}}

\* with header merging: one cell of either kind after the optional caption
MergingGridTables ==
    UNION {{GridTable(rc, cc, cap \o <<x>>) :
               cap \in CaptionCells(cc),
               x \in GridCells(rc, cc, {"content", "columnHeader"}, <<"a">>)}
           : rc \in 1..MaxRows, cc \in {1, 2}}

GridPages == <<NumberedPage(1, 2)>>

InitGrid ==
    \/ \E t \in PlainGridTables :
          Start([pages |-> GridPages, tables |-> << <<t>> >>], <<>>,
                Config(DefaultContextLen, DefaultContextLen, FALSE, TRUE, <<>>))
    \/ \E t \in MergingGridTables :
          Start([pages |-> GridPages, tables |-> << <<t>> >>], <<>>,
                Config(DefaultContextLen, DefaultContextLen, TRUE, TRUE, <<>>))

SpecGrid == InitGrid /\ [][Next]_vars

\* the caption offset of a table: 1 when its first cell spans all columns
CaptionOffset(t) ==
    IF t.cells # <<>> /\ t.cells[1].column_span = t.column_count THEN 1 ELSE 0

\* the cell is appended to the header row instead of being placed
IsExtraHeader(t, cell) ==
    /\ cfg.merge_multiple_column_headers
    /\ cell.kind = "columnHeader"
    /\ cell.row_index > CaptionOffset(t)

\* positions (row, column), from 0, that the cell at idx targets
Targets(t, idx) ==
    {<<t.cells[idx].row_index + r - CaptionOffset(t), t.cells[idx].column_index + c>> :
        r \in 0..(t.cells[idx].row_span - 1), c \in 0..(t.cells[idx].column_span - 1)}

InGrid(t, pos) ==
    /\ 0 <= pos[1] /\ pos[1] < t.row_count - CaptionOffset(t)
    /\ 0 <= pos[2] /\ pos[2] < t.column_count

\* cells placed in the grid: all but the caption cell
PlacedCells(t) == (1 + CaptionOffset(t))..Len(t.cells)

\* some placement of a cell that the code places by row and column targets a
\* position outside the grid
HasTargetOutsideGrid(t) ==
    \E idx \in PlacedCells(t) :
        /\ ~IsExtraHeader(t, t.cells[idx])
        /\ \E pos \in Targets(t, idx) : ~InGrid(t, pos)

\* C3: a table with a cell whose placement target lies outside the allocated
\* grid (row below 0 or past the last row, column past the last column) ends
\* in an error and never in a table document; so a cell with row_index 0 after
\* a caption cell is never written into another row.
C3_OutOfRangeTargetRaises ==
    \A i \in 1..NumTables :
        HasTargetOutsideGrid(TablesOf(result0)[i]) => ~Converted(i)


\* the grid of a table document: its header row, then its data rows
GridOf(doc) == <<doc.content.columns>> \o doc.content.data

\* row indices (from 0, after the caption offset) of the extra header rows
\* that header merging deletes
ExtraHeaderRows(t) ==
    {t.cells[idx].row_index - CaptionOffset(t) :
        idx \in {j \in PlacedCells(t) :
                    /\ IsExtraHeader(t, t.cells[j])
                    /\ t.cells[j].row_span > 0 /\ t.cells[j].column_span > 0}}

\* every cell after the caption has all its targets in the grid
WellFormed(t) ==
    \A idx \in PlacedCells(t) : \A pos \in Targets(t, idx) : InGrid(t, pos)

\* a later cell targets the position too
CoveredLater(t, idx, pos) ==
    \E j \in (idx + 1)..Len(t.cells) : pos \in Targets(t, j)

\* every cell placed by row and column is found at row_index - offset + r,
\* column_index + c of the grid, unless a later cell covers that position
PlacedAtTargets(t, grid) ==
    \A idx \in PlacedCells(t) :
        IsExtraHeader(t, t.cells[idx]) \/
        \A pos \in Targets(t, idx) :
            /\ pos[1] + 1 \in DOMAIN grid
            /\ pos[2] + 1 \in DOMAIN grid[pos[1] + 1]
            /\ CoveredLater(t, idx, pos)
                  \/ grid[pos[1] + 1][pos[2] + 1] = Sanitize(t.cells[idx].content)

LastOf(s) == s[Len(s)]

\* C7: a table with row_count > 0 whose first cell spans all columns (and whose
\* other cells lie in the grid) yields a table document; its grid, before the
\* extra header rows are deleted, has row_count - 1 rows, holds the first
\* cell's content nowhere, the content is the last line of preceding_context,
\* and every later cell is at row row_index - 1.  Without such a first cell no
\* row is removed and cells are at row row_index.
C7_CaptionRowRemoved ==
    \A i \in 1..NumTables :
        LET t == TablesOf(result0)[i]
            off == CaptionOffset(t)
        IN  /\ (off = 1 /\ t.row_count > 0 /\ WellFormed(t)) => ~Raised(i)
            /\ Converted(i) =>
                 LET grid == GridOf(converted_tables[i])
                     caption == Sanitize(t.cells[1].content)
                 IN  /\ Len(grid) + Cardinality(ExtraHeaderRows(t)) = t.row_count - off
                     /\ ExtraHeaderRows(t) = {} => PlacedAtTargets(t, grid)
                     /\ off = 1 =>
                          /\ \A r \in DOMAIN grid : \A c \in DOMAIN grid[r] :
                                grid[r][c] # caption
                          /\ LastOf(SplitOn(converted_tables[i].meta["preceding_context"],
                                            "\n")) = Strip(caption)


----------------------------------------------------------------------------
(* SpecHeaders: tables with two rows of column headers and up to one further *)
(* row, after an optional caption, their cells listed in every order.  A     *)
(* header row of a two-column table is two cells or one cell of              *)
(* column_span 2; the two header rows may also be one row of cells of        *)
(* row_span 2.                                                               *)

\* the sequences that list every element of the set S once
Orderings(S) ==
    {f \in [1..Cardinality(S) -> S] :
        \A i, j \in 1..Cardinality(S) : f[i] = f[j] => i = j}

HeaderContents == << <<"A">>, <<"B">> >>

SubheaderContents == << <<"C">>, <<"D">> >>

BodyContents == << <<"x">>, <<"y">> >>

WideHeaderContent == <<"G">>

WideSubheaderContent == <<"S">>

\* the ways to fill row ri with column headers: one cell per column, or, for
\* two columns, one cell over both
HeaderRows(ri, cc, contents, wide) ==
    {{Cell(ri, c, 1, 1, "columnHeader", contents[c + 1]) : c \in 0..(cc - 1)}}
    \cup (IF cc = 2 THEN {{Cell(ri, 0, 1, 2, "columnHeader", wide)}} ELSE {})

\* the ways to fill rows off and off + 1 with column headers: two header rows,
\* or one cell of row_span 2 per column
HeaderBlocks(cc, off) ==
    {first \cup second :
        first \in HeaderRows(off, cc, HeaderContents, WideHeaderContent),
        second \in HeaderRows(off + 1, cc, SubheaderContents, WideSubheaderContent)}
    \cup {{Cell(off, c, 2, 1, "columnHeader", HeaderContents[c + 1]) : c \in 0..(cc - 1)}}

\* cells of row off + 2, for body = 1
BodyCells(cc, off, body, kind) ==
    {Cell(off + 2, c, 1, 1, kind, BodyContents[c + 1]) : c \in 0..(body * cc - 1)}

HeaderTablesOf(cc, cap) ==
    UNION {{GridTable(Len(cap) + 2 + body, cc, cap \o cells) :
               cells \in Orderings(block \cup BodyCells(cc, Len(cap), body, kind))}
           : block \in HeaderBlocks(cc, Len(cap)), body \in {0, 1},
             kind \in {"content", "columnHeader"}}

HeaderTables ==
    UNION {UNION {HeaderTablesOf(cc, cap) : cap \in CaptionCells(cc)} : cc \in {1, 2}}

InitHeaders ==
    \E t \in HeaderTables, merge \in BOOLEAN :
        Start([pages |-> GridPages, tables |-> << <<t>> >>], <<>>,
              Config(DefaultContextLen, DefaultContextLen, merge, TRUE, <<>>))

SpecHeaders == InitHeaders /\ [][Next]_vars

\* indices of the cells after the caption that target the position
CellsAt(t, pos) == {idx \in PlacedCells(t) : pos \in Targets(t, idx)}

\* the positions of the first two rows after the caption offset
HeaderPositions(t) == {0, 1} \X (0..(t.column_count - 1))

\* the first two rows after the caption offset consist of columnHeader cells:
\* each of their positions is covered by one cell, a columnHeader
TwoHeaderRows(t) ==
    /\ t.row_count - CaptionOffset(t) >= 2
    /\ \A pos \in HeaderPositions(t) :
          /\ Cardinality(CellsAt(t, pos)) = 1
          /\ \A idx \in CellsAt(t, pos) : t.cells[idx].kind = "columnHeader"

\* the content, tags removed, of the one cell at the position
ContentAt(t, pos) ==
    Sanitize(t.cells[CHOOSE idx \in CellsAt(t, pos) : TRUE].content)

\* no row after the first two holds a columnHeader cell
NoLaterHeader(t) ==
    \A idx \in PlacedCells(t) :
        t.cells[idx].kind = "columnHeader"
            => t.cells[idx].row_index - CaptionOffset(t) <= 1

\* in every column the cell of the first header row is listed before the cell
\* of the second
FirstRowListedFirst(t) ==
    \A c \in 0..(t.column_count - 1) :
        \A i \in CellsAt(t, <<0, c>>) : \A j \in CellsAt(t, <<1, c>>) : i < j

\* the header rows of the document of such a table, with and without merging
MergedHeaders(t, doc) ==
    LET grid == GridOf(doc)
        rows == t.row_count - CaptionOffset(t)
    IN  IF cfg.merge_multiple_column_headers
        THEN /\ Len(grid) = rows - 1
             /\ \A c \in 0..(t.column_count - 1) :
                   grid[1][c + 1]
                       = ContentAt(t, <<0, c>>) \o <<"\n">> \o ContentAt(t, <<1, c>>)
        ELSE /\ Len(grid) = rows
             /\ \A c \in 0..(t.column_count - 1) :
                   /\ grid[1][c + 1] = ContentAt(t, <<0, c>>)
                   /\ grid[2][c + 1] = ContentAt(t, <<1, c>>)

\* C8 as stated: for a table whose first two rows (after the caption offset)
\* consist of columnHeader cells, with merging the header of each column is the
\* first header row's content, a newline, the second's, in whatever order the
\* cells are listed, and the grid has one row fewer; without merging both
\* rows are kept with their own contents.
C8_AnyOrder ==
    \A i \in 1..NumTables :
        (TwoHeaderRows(TablesOf(result0)[i]) /\ Converted(i)) =>
            MergedHeaders(TablesOf(result0)[i], converted_tables[i])

\* what merging needs of the cells: no later row holds a columnHeader cell,
\* and every column lists the cell of its first header row before the cell
\* of its second (so the two are different cells)
MergeableHeaders(t) ==
    /\ NoLaterHeader(t)
    /\ FirstRowListedFirst(t)

\* C8 amended: with merging the same holds for the tables that hold no
\* columnHeader cell in a later row and that list, in every column, the cell
\* of the first header row before the cell of the second; without merging it
\* holds for every such table, in any order of the cells.
C8_MergedHeaders ==
    \A i \in 1..NumTables :
        (/\ TwoHeaderRows(TablesOf(result0)[i])
         /\ Converted(i)
         /\ cfg.merge_multiple_column_headers
               => MergeableHeaders(TablesOf(result0)[i])) =>
            MergedHeaders(TablesOf(result0)[i], converted_tables[i])

\* a merged document of a two-column table whose cells are not listed row by
\* row: the second header of column 0 comes before the first header of column 1
C8_Witness ==
    /\ Converted(1)
    /\ cfg.merge_multiple_column_headers
    /\ TablesOf(result0)[1].column_count = 2
    /\ TwoHeaderRows(TablesOf(result0)[1])
    /\ MergeableHeaders(TablesOf(result0)[1])
    /\ \E i \in CellsAt(TablesOf(result0)[1], <<1, 0>>) :
          \E j \in CellsAt(TablesOf(result0)[1], <<0, 1>>) : i < j

\* a merged document of a table whose first header row is one cell over both
\* columns
WideHeaderMerged ==
    /\ Converted(1)
    /\ cfg.merge_multiple_column_headers
    /\ TwoHeaderRows(TablesOf(result0)[1])
    /\ MergeableHeaders(TablesOf(result0)[1])
    /\ \E idx \in CellsAt(TablesOf(result0)[1], <<0, 0>>) :
          TablesOf(result0)[1].cells[idx].column_span = 2

\* a document made without merging of a table that lists the second header
\* row's cell of some column before the first's
UnorderedKeptSeparate ==
    /\ Converted(1)
    /\ ~cfg.merge_multiple_column_headers
    /\ TwoHeaderRows(TablesOf(result0)[1])
    /\ ~FirstRowListedFirst(TablesOf(result0)[1])

\* C8 amended without the condition on later rows: fails, a third header row
\* is merged and deleted too
C8_WithoutNoLater ==
    \A i \in 1..NumTables :
        (/\ TwoHeaderRows(TablesOf(result0)[i]) /\ Converted(i)
         /\ FirstRowListedFirst(TablesOf(result0)[i])) =>
            MergedHeaders(TablesOf(result0)[i], converted_tables[i])

\* C8 amended without the condition on the order: fails, a first-row cell
\* listed after the second-row cell of its column overwrites it
C8_WithoutOrder ==
    \A i \in 1..NumTables :
        (/\ TwoHeaderRows(TablesOf(result0)[i]) /\ Converted(i)
         /\ NoLaterHeader(TablesOf(result0)[i])) =>
            MergedHeaders(TablesOf(result0)[i], converted_tables[i])


----------------------------------------------------------------------------
(* SpecCells: one table of 1..MaxRows rows and 1 or 2 columns whose cells    *)
(* are told apart by their content: up to MaxCells cells of span 1 at        *)
(* different positions, in any order; or up to two cells of any span, zero   *)
(* included, inside the table, which may overlap; or, with header merging,   *)
(* one cell of any kind and span that may reach past the last row or column. *)
(* The last two may end with one more cell that has a zero span.             *)

MaxCells == 4

CellLetters == <<"a", "b", "c", "d", "e", "f">>

\* the content of the cell detected at idx; the second carries a selection tag
CellContent(idx) ==
    IF idx = 2 THEN <<CellLetters[idx]>> \o SELECTED ELSE <<CellLetters[idx]>>

\* cells of span 1 at the given positions, header cells in row 0
UnitCells(positions) ==
    [idx \in DOMAIN positions |->
        Cell(positions[idx][1], positions[idx][2], 1, 1,
             IF positions[idx][1] = 0 THEN "columnHeader" ELSE "content",
             CellContent(idx))]

\* the sequences of up to n different elements of S
DistinctSeqsUpTo(S, n) ==
    {q \in SeqsUpTo(S, n) : \A i, j \in DOMAIN q : q[i] = q[j] => i = j}

UnitTables ==
    UNION {{GridTable(rc, cc, UnitCells(positions)) :
               positions \in DistinctSeqsUpTo((0..(rc - 1)) \X (0..(cc - 1)), MaxCells)}
           : rc \in 1..MaxRows, cc \in {1, 2}}

\* <<row_index, column_index, row_span, column_span, kind>>
SpannedShapes(rc, cc, kinds) ==
    (0..(rc - 1)) \X (0..(cc - 1)) \X (0..rc) \X (0..cc) \X kinds

\* the shapes that end at or before the last row and column
InsideShapes(rc, cc, kinds) ==
    {sh \in SpannedShapes(rc, cc, kinds) : sh[1] + sh[3] <= rc /\ sh[2] + sh[4] <= cc}

SpannedCells(shapes) ==
    [idx \in DOMAIN shapes |->
        Cell(shapes[idx][1], shapes[idx][2], shapes[idx][3], shapes[idx][4],
             shapes[idx][5], CellContent(idx))]

\* a cell at row 0, column 0 with row_span 0
ZeroSpanShape == <<0, 0, 0, 1, "content">>

\* up to two cells inside the table, then possibly a cell with a zero span
InsideTables ==
    UNION {{GridTable(rc, cc, SpannedCells(shapes \o last)) :
               shapes \in SeqsUpTo(InsideShapes(rc, cc, {"content"}), 2),
               last \in {<<>>, <<ZeroSpanShape>>}}
           : rc \in 1..MaxRows, cc \in {1, 2}}

\* one cell of any kind and span, then possibly a cell with a zero span
OneCellTables ==
    UNION {{GridTable(rc, cc, SpannedCells(<<sh>> \o last)) :
               sh \in SpannedShapes(rc, cc, {"content", "columnHeader"}),
               last \in {<<>>, <<ZeroSpanShape>>}}
           : rc \in 1..MaxRows, cc \in {1, 2}}

InitCells ==
    \/ \E t \in UnitTables \cup InsideTables :
          Start([pages |-> GridPages, tables |-> << <<t>> >>], <<>>,
                Config(DefaultContextLen, DefaultContextLen, FALSE, TRUE, <<>>))
    \/ \E t \in OneCellTables :
          Start([pages |-> GridPages, tables |-> << <<t>> >>], <<>>,
                Config(DefaultContextLen, DefaultContextLen, TRUE, TRUE, <<>>))

SpecCells == InitCells /\ [][Next]_vars

\* the cell's rectangle [row_index, row_index + row_span) x
\* [column_index, column_index + column_span) lies in the declared bounds
InBounds(t, cell) ==
    /\ 0 <= cell.row_index /\ cell.row_index + cell.row_span <= t.row_count
    /\ 0 <= cell.column_index /\ cell.column_index + cell.column_span <= t.column_count

\* the cell's rectangle covers position (i, j), counted from 0
Covers(cell, i, j) ==
    /\ cell.row_index <= i /\ i < cell.row_index + cell.row_span
    /\ cell.column_index <= j /\ j < cell.column_index + cell.column_span

\* no caption, no cell appended to the header row, every cell in bounds
PlainInBounds(t) ==
    /\ CaptionOffset(t) = 0
    /\ \A idx \in DOMAIN t.cells :
          /\ ~IsExtraHeader(t, t.cells[idx])
          /\ InBounds(t, t.cells[idx])

LastCovering(t, i, j) ==
    LET covering == {idx \in DOMAIN t.cells : Covers(t.cells[idx], i, j)}
    IN  IF covering = {} THEN 0
        ELSE CHOOSE idx \in covering : \A other \in covering : other <= idx

\* row_count x column_count grid: at each position the content (selection tags
\* removed) of the last cell covering it, the empty string when there is none
ExpectedGrid(t) ==
    [i \in 1..t.row_count |->
        [j \in 1..t.column_count |->
            IF LastCovering(t, i - 1, j - 1) = 0 THEN <<>>
            ELSE Sanitize(t.cells[LastCovering(t, i - 1, j - 1)].content)]]

\* C11: a table without caption and without header merging whose cells all
\* lie within the declared bounds is converted, and each position (i, j) of
\* its row_count x column_count grid holds the content of the last cell in
\* detection order whose rectangle covers (i, j), the empty string when no
\* cell covers it; a cell with a zero span covers nothing and places nothing.
\* For a 2x2 table with four span-1 cells the grid is the 2x2 content matrix.
C11_GridHoldsLastCovering ==
    \A i \in 1..NumTables :
        LET t == TablesOf(result0)[i]
        IN  PlainInBounds(t) =>
              /\ ~Raised(i)
              /\ Converted(i) => GridOf(converted_tables[i]) = ExpectedGrid(t)

\* a converted table without caption or merging, all cells in bounds, where a
\* position is covered by two cells, another by none, and a zero-span cell
\* is present
C11_Witness ==
    /\ NumTables = 1 /\ Converted(1)
    /\ LET t == TablesOf(result0)[1]
       IN  /\ PlainInBounds(t)
           /\ \E idx \in DOMAIN t.cells :
                 t.cells[idx].row_span = 0 \/ t.cells[idx].column_span = 0
           /\ \E i \in 0..(t.row_count - 1), j \in 0..(t.column_count - 1) :
                 Cardinality({idx \in DOMAIN t.cells : Covers(t.cells[idx], i, j)}) = 2
           /\ \E i \in 0..(t.row_count - 1), j \in 0..(t.column_count - 1) :
                 LastCovering(t, i, j) = 0

\* a converted 2x2 table with four span-1 cells, one at each position
FourCellTableConverted ==
    /\ NumTables = 1 /\ Converted(1)
    /\ LET t == TablesOf(result0)[1]
       IN  /\ t.row_count = 2 /\ t.column_count = 2 /\ Len(t.cells) = 4
           /\ \A idx \in DOMAIN t.cells :
                 t.cells[idx].row_span = 1 /\ t.cells[idx].column_span = 1
           /\ \A i \in 0..1, j \in 0..1 : LastCovering(t, i, j) # 0


=============================================================================
